---- MODULE Spec2Model ----
(***************************************************************************)
(* Model of src/numeric_cdf_constrains.py: the bounded-simplex projector,  *)
(* the anti-flatten post-pass and enforce_cdf_constraints.                 *)
(*                                                                         *)
(* Numbers.  The program computes on IEEE doubles.  Here a real x is the   *)
(* integer x * One (fixed point, six decimals), and the rounding of a      *)
(* floating-point division is the floor of \div.  The grid step 1/One      *)
(* plays the part of the machine epsilon; the program's 1e-12 (bisection   *)
(* tolerance, the epsilons of lines 82, 103 and 162) is a few grid steps,  *)
(* as 1e-12 is a few thousand machine epsilons: larger than the rounding   *)
(* of a sum of increments, far smaller than min_step.                      *)
(***************************************************************************)
EXTENDS Integers, Sequences, FiniteSets, TLC

\* ------------------------------------------------------------------ units
One == 1000000
Milli == One \div 1000
Tol == 4
Eps12 == Tol
MaxIter == 60
DefaultMinStep == 50
DefaultMaxStep == 589999
CvThreshDen == 10
BlendDen == 5

\* ----------------------------------------------------------------- bounds
MaxN == 4

\* ---------------------------------------------------------------- helpers
Min2(a, b) == IF a <= b THEN a ELSE b
Max2(a, b) == IF a >= b THEN a ELSE b
Abs(x) == IF x >= 0 THEN x ELSE -x

\* np.clip(x, lo, hi) = minimum(maximum(x, lo), hi); with lo > hi it is hi.
ClipNoUpper(x, lo, hi) == Max2(x, lo)
ClipNoLower(x, lo, hi) == Min2(x, hi)
Clip(x, lo, hi) == Min2(Max2(x, lo), hi)

RECURSIVE SeqSum(_)
SeqSum(s) == IF Len(s) = 0 THEN 0 ELSE s[Len(s)] + SeqSum(SubSeq(s, 1, Len(s) - 1))

RECURSIVE SeqMin(_)
SeqMin(s) == IF Len(s) = 1 THEN s[1] ELSE Min2(s[Len(s)], SeqMin(SubSeq(s, 1, Len(s) - 1)))

RECURSIVE SeqMax(_)
SeqMax(s) == IF Len(s) = 1 THEN s[1] ELSE Max2(s[Len(s)], SeqMax(SubSeq(s, 1, Len(s) - 1)))

\* np.diff
Diff(c) == [i \in 1..(Len(c) - 1) |-> c[i + 1] - c[i]]

\* np.cumsum
CumSum(d) == [i \in 1..Len(d) |-> SeqSum(SubSeq(d, 1, i))]

\* np.maximum.accumulate
RunMaxSkipped(c) == c
RunMax(c) == [i \in 1..Len(c) |-> SeqMax(SubSeq(c, 1, i))]

\* ------------------------------------------- _project_bounded_simplex
\* np.clip(d_raw + x, L, U)
ClipShiftMirrored(d, x, L, U) == [i \in 1..Len(d) |-> Clip(x - d[i], L, U)]
ClipShift(d, x, L, U) == [i \in 1..Len(d) |-> Clip(d[i] + x, L, U)]

\* S(x) = np.clip(d_raw + x, L, U).sum()
S(d, x, L, U) == SeqSum(ClipShift(d, x, L, U))

\* total = float(np.clip(total, n * L, n * U))
ClampTotalNone(d, total, L, U) == total
ClampTotal(d, total, L, U) == Clip(total, Len(d) * L, Len(d) * U)

\* lo = min(L - d_raw) - 1.0 ; hi = max(U - d_raw) + 1.0
InitLo(d, L) == SeqMin([i \in 1..Len(d) |-> L - d[i]]) - One
InitHi(d, U) == SeqMax([i \in 1..Len(d) |-> U - d[i]]) + One

\* mid = 0.5 * (lo + hi)
MidLow(lo, hi) == lo
Mid(lo, hi) == (lo + hi) \div 2

\* abs(s - total) <= tol
ConvergedOneSided(s, total, tol) == s - total <= tol
Converged(s, total, tol) == Abs(s - total) <= tol

\* if s > total: hi = mid  else: lo = mid      (the new <<lo, hi>>)
NarrowSwapped(lo, hi, mid, s, total) == IF s > total THEN <<mid, hi>> ELSE <<lo, mid>>
Narrow(lo, hi, mid, s, total) == IF s > total THEN <<lo, mid>> ELSE <<mid, hi>>

\* the loop of lines 39-47 from iteration k on, and the fallback of line 50
RECURSIVE Bisect(_, _, _, _, _, _, _, _, _)
Bisect(d, total, L, U, lo, hi, k, tol, max_iter) ==
  IF k >= max_iter THEN ClipShift(d, Mid(lo, hi), L, U)
  ELSE LET mid == Mid(lo, hi)
           s == S(d, mid, L, U)
       IN IF Converged(s, total, tol) THEN ClipShift(d, mid, L, U)
          ELSE LET b == Narrow(lo, hi, mid, s, total)
               IN Bisect(d, total, L, U, b[1], b[2], k + 1, tol, max_iter)

\* _project_bounded_simplex(d_raw, total, L, U, tol, max_iter)
ProjectWith(d, total, L, U, tol, max_iter) ==
  IF Len(d) = 0 THEN d
  ELSE Bisect(d, ClampTotal(d, total, L, U), L, U, InitLo(d, L), InitHi(d, U),
              0, tol, max_iter)

\* the call both callers make: tol and max_iter at their defaults
ProjectBoundedSimplex(d, total, L, U) == ProjectWith(d, total, L, U, Tol, MaxIter)

\* ------------------------------------------------- exact wide arithmetic
\* Squares of six-decimal numbers do not fit 32-bit integers, so they are
\* kept exactly as <<hi, lo>> = hi * One + lo with 0 <= lo < One.
Limb == 1000
WNorm(hi, lo) == <<hi + (lo \div One), lo % One>>
WSq(x) ==
  LET a == Abs(x)
      xh == a \div Limb
      xl == a % Limb
      cross == 2 * xh * xl
  IN WNorm(xh * xh + (cross \div Limb), (cross % Limb) * Limb + xl * xl)
WAdd(u, v) == WNorm(u[1] + v[1], u[2] + v[2])
WScale(k, u) == WNorm(k * u[1], k * u[2])
WGeq(u, v) == u[1] > v[1] \/ (u[1] = v[1] /\ u[2] >= v[2])

\* sum over i < j of (d[i] - d[j])^2  =  m^2 * var(d)  =  (m * d.std())^2
RECURSIVE PairSq(_, _, _)
PairSq(d, i, j) ==
  IF i >= Len(d) THEN <<0, 0>>
  ELSE IF j > Len(d) THEN PairSq(d, i + 1, i + 2)
       ELSE WAdd(WSq(d[i] - d[j]), PairSq(d, i, j + 1))

\* (x * k) / One for a kernel weight k in 0..One and 0 <= x < 2000 * Limb
MulW(x, k) ==
  LET xh == x \div Limb
      xl == x % Limb
  IN (xh * k + ((xl * k) \div Limb)) \div Limb

\* ---------------------------------------------- _anti_flatten_postpass
\* mean = d.mean(); mean <= 0   (m > 0, so the sign of the mean is that of the sum)
MeanNegative(d) == SeqSum(d) < 0
MeanNonPositive(d) == SeqSum(d) <= 0

\* cv = d.std() / (abs(mean) + 1e-12); cv >= cv_thresh, for mean > 0:
\*   CvThreshDen * std >= mean + eps, both sides times m and squared.
CvBelow(d) ==
  ~WGeq(WScale(CvThreshDen * CvThreshDen, PairSq(d, 1, 2)),
        WSq(SeqSum(d) + Len(d) * Eps12))
CvAtLeastFifth(d) ==
  WGeq(WScale(25, PairSq(d, 1, 2)), WSq(SeqSum(d) + Len(d) * Eps12))
CvAtLeast(d) ==
  WGeq(WScale(CvThreshDen * CvThreshDen, PairSq(d, 1, 2)),
       WSq(SeqSum(d) + Len(d) * Eps12))

\* w = exp(-0.5 * ((idx - center) / sigma) ** 2); w /= w.sum()
\* with center = 0.5 * (m - 1), sigma = max(m / 4, 1): the normalised
\* weights to six decimals (each row sums to One), for m = 1..6.
\* KernelUncentered is the same with center = 0.
\* KernelUnnormalised is w before w /= w.sum().
KernelUnnormalised(m) ==
  CASE m = 1 -> <<1000000>>
    [] m = 2 -> <<882497, 882497>>
    [] m = 3 -> <<606531, 1000000, 606531>>
    [] m = 4 -> <<324652, 882497, 882497, 324652>>
    [] m = 5 -> <<278037, 726149, 1000000, 726149, 278037>>
    [] m = 6 -> <<249352, 606531, 945959, 945959, 606531, 249352>>
KernelUncentered(m) ==
  CASE m = 1 -> <<1000000>>
    [] m = 2 -> <<622459, 377541>>
    [] m = 3 -> <<574097, 348207, 77696>>
    [] m = 4 -> <<570459, 346001, 77203, 6337>>
    [] m = 5 -> <<483958, 351425, 134558, 27167, 2892>>
    [] m = 6 -> <<420236, 336499, 172764, 56873, 12003, 1625>>
Kernel(m) ==
  CASE m = 1 -> <<1000000>>
    [] m = 2 -> <<500000, 500000>>
    [] m = 3 -> <<274069, 451862, 274069>>
    [] m = 4 -> <<134471, 365529, 365529, 134471>>
    [] m = 5 -> <<92421, 241376, 332406, 241376, 92421>>
    [] m = 6 -> <<69194, 168308, 262498, 262498, 168308, 69194>>

\* d_tilt = (1.0 - blend) * d + blend * (w * d.sum())
\* BlendNoKernel leaves the increments as they are.
BlendNoKernel(d) == d
Blend(d) ==
  LET w == Kernel(Len(d))
      sd == SeqSum(d)
  IN [i \in 1..Len(d) |->
        (((BlendDen - 1) * d[i]) \div BlendDen) + (MulW(sd, w[i]) \div BlendDen)]

\* the same for a blend of b tenths (the parameter blend of line 60)
BlendTenths == 10
BlendBy(d, b) ==
  LET w == Kernel(Len(d))
      sd == SeqSum(d)
  IN [i \in 1..Len(d) |->
        (((BlendTenths - b) * d[i]) \div BlendTenths)
          + ((b * MulW(sd, w[i])) \div BlendTenths)]

\* lower = 0.001 if open_lower else 0.0 ; upper = 0.999 if open_upper else 1.0
LowerLimit(open_lower) == IF open_lower THEN Milli ELSE 0
UpperLimit(open_upper) == IF open_upper THEN One - Milli ELSE One

\* L = min_step; if m * L > total: L = max(total / m - 1e-12, 0.0)
FeasibleLNoShrink(m, min_step, total) == min_step
FeasibleLPlusEps(m, min_step, total) ==
  IF m * min_step > total THEN Max2((total \div m) + Eps12, 0) ELSE min_step
FeasibleL(m, min_step, total) ==
  IF m * min_step > total THEN Max2((total \div m) - Eps12, 0) ELSE min_step

\* cdf_out[0] = lower; cdf_out[1:] = lower + np.cumsum(d_proj);
\* cdf_out[-1] = min(cdf_out[-1], upper)
RebuildNoAnchor(lower, upper, d) ==
  [i \in 1..Len(d) |-> lower + CumSum(d)[i]]
RebuildNoClamp(lower, upper, d) ==
  LET cs == CumSum(d)
  IN [i \in 1..(Len(d) + 1) |-> IF i = 1 THEN lower ELSE lower + cs[i - 1]]
RebuildNoLower(lower, upper, d) ==
  LET cs == CumSum(d)
      n == Len(d) + 1
  IN [i \in 1..n |->
        IF i = 1 THEN lower
        ELSE IF i = n THEN Min2(cs[i - 1], upper)
             ELSE cs[i - 1]]
Rebuild(lower, upper, d) ==
  LET cs == CumSum(d)
      n == Len(d) + 1
  IN [i \in 1..n |->
        IF i = 1 THEN lower
        ELSE IF i = n THEN Min2(lower + cs[i - 1], upper)
             ELSE lower + cs[i - 1]]

\* the whole post-pass: the returned CDF and the branch that returned it
AntiFlattenPostpass(cdf, open_lower, open_upper, min_step, max_step) ==
  LET d == Diff(cdf) IN
  IF Len(cdf) < 2 THEN [cdf |-> cdf, branch |-> "empty"]
  ELSE IF MeanNonPositive(d) THEN [cdf |-> cdf, branch |-> "nonpositive"]
  ELSE IF CvAtLeast(d) THEN [cdf |-> cdf, branch |-> "noop"]
  ELSE LET m == Len(d)
           lower == LowerLimit(open_lower)
           upper == UpperLimit(open_upper)
           total == upper - lower
           L == FeasibleL(m, min_step, total)
           d_proj == ProjectBoundedSimplex(Blend(d), total, L, max_step)
       IN [cdf |-> Rebuild(lower, upper, d_proj), branch |-> "blend"]

\* ------------------------------------------------------------- the state
VARIABLES
  pc,          \* position of the enforce_cdf_constraints call
  cdf_raw,     \* the argument
  open_lower, open_upper, min_step, max_step,
  d_raw,       \* raw increments of the cleaned sequence   (line 155)
  L,           \* feasible lower step bound                (lines 160-162)
  d_proj,      \* first projection                         (line 165)
  cdf_fix,     \* reconstructed CDF                        (lines 168-171)
  result,      \* the returned CDF
  branch,      \* which return of the post-pass was taken
  call,        \* 1: the caller's first call, 2: the call on its own output
  first,       \* what the first call returned
  \* one call of _project_bounded_simplex, statement by statement
  p_pc, p_d, p_total, p_L, p_U, p_tol, p_max_iter,  \* position and arguments
  p_target,    \* total after the clamp of line 33
  p_lo, p_hi, p_iter, p_out,
  \* one direct call of _anti_flatten_postpass
  f_pc,        \* "start", then the return that was taken
  f_cdf, f_open_lower, f_open_upper, f_min_step, f_max_step,  \* the arguments
  f_out,       \* the returned CDF
  \* enforce_cdf_constraints running at several call sites at once
  site,        \* per call site: its arguments, its position and its locals
  \* one call of forecast_individual_question
  q_pc,
  post_details,    \* what get_post_details returned: the state of my_forecasts
  question_type,
  submit_prediction, skip_previously_forecasted_questions,  \* the arguments
  predicted,       \* a prediction routine has been called
  requests_sent,   \* the POST requests made so far, each with its response
  summary_of_forecast,
  q_ret,           \* "summary", or the class of the exception raised
  \* one call of forecast_questions
  b_pc,
  open_question_id_post_id,  \* the questions, in input order
  tasks,           \* per question: "pending", or how its task ended
  forecast_summaries,        \* what asyncio.gather returned
  errors,
  b_next,          \* the next summary the loop of lines 313-323 handles
  printed,         \* the summaries and error reports printed, in order
  b_ret            \* "returned" or "RuntimeError"

enforceVars == <<pc, cdf_raw, open_lower, open_upper, min_step, max_step,
                 d_raw, L, d_proj, cdf_fix, result, branch, call, first>>
projVars == <<p_pc, p_d, p_total, p_L, p_U, p_tol, p_max_iter, p_target,
              p_lo, p_hi, p_iter, p_out>>
flatVars == <<f_pc, f_cdf, f_open_lower, f_open_upper, f_min_step, f_max_step,
              f_out>>
parVars == <<site>>
questionVars == <<q_pc, post_details, question_type, submit_prediction,
                  skip_previously_forecasted_questions, predicted,
                  requests_sent, summary_of_forecast, q_ret>>
batchVars == <<b_pc, open_question_id_post_id, tasks, forecast_summaries,
               errors, b_next, printed, b_ret>>
mainVars == <<questionVars, batchVars>>
coreVars == <<enforceVars, projVars, flatVars, parVars>>
vars == <<coreVars, mainVars>>

\* ------------------------------------------------------------ the inputs
RawVals == {0, 250000, 500000, 1000000, 1200000}
\* a compliant closed-bounds CDF whose increments have a coefficient of
\* variation a hair above the threshold 0.10
NearThresholdCdf == <<0, 309603, 619526, 1000000>>
\* linear ramps from 0 to 1 with exactly equal increments (np.linspace(0, 1, n))
Ramp(n) == [i \in 1..n |-> ((i - 1) * One) \div (n - 1)]
RampCdfs == {Ramp(5), Ramp(6)}
RawCdfs ==
  UNION {[1..n -> RawVals] : n \in 0..MaxN} \cup {NearThresholdCdf} \cup RampCdfs

\* <<min_step, max_step>>: the defaults; no minimum step; the bounds of the
\* infeasible-shrink scenario; min_step above max_step; a max_step too small
\* for three increments to reach the total.
StepConfigs == {<<DefaultMinStep, DefaultMaxStep>>, <<0, DefaultMaxStep>>,
                <<500000, 590000>>, <<600000, DefaultMaxStep>>, <<50, 300000>>}

ProjIdle ==
  /\ p_pc = "idle" /\ p_d = <<>> /\ p_total = 0 /\ p_L = 0 /\ p_U = 0
  /\ p_tol = Tol /\ p_max_iter = MaxIter /\ p_target = 0
  /\ p_lo = 0 /\ p_hi = 0 /\ p_iter = 0 /\ p_out = <<>>

FlatIdle ==
  /\ f_pc = "idle" /\ f_cdf = <<>> /\ f_open_lower = FALSE /\ f_open_upper = FALSE
  /\ f_min_step = 0 /\ f_max_step = 0 /\ f_out = <<>>

\* the call sites and the frame of a call that has not started
Sites == {1, 2}
IdleFrame ==
  [pc |-> "idle", cdf_raw |-> <<>>, open_lower |-> FALSE, open_upper |-> FALSE,
   min_step |-> 0, max_step |-> 0, d_raw |-> <<>>, L |-> 0, d_proj |-> <<>>,
   cdf_fix |-> <<>>, result |-> <<>>, calls |-> 0,
   arg |-> <<>>, raw_obj |-> "none", result_obj |-> "none"]
ParIdle == site = [i \in Sites |-> IdleFrame]

QuestionIdle ==
  /\ q_pc = "idle" /\ post_details = "none" /\ question_type = "none"
  /\ submit_prediction = FALSE /\ skip_previously_forecasted_questions = FALSE
  /\ predicted = FALSE /\ requests_sent = <<>> /\ summary_of_forecast = <<>>
  /\ q_ret = "none"

BatchIdle ==
  /\ b_pc = "idle" /\ open_question_id_post_id = <<>> /\ tasks = <<>>
  /\ forecast_summaries = <<>> /\ errors = <<>> /\ b_next = 1
  /\ printed = <<>> /\ b_ret = "none"

MainIdle == QuestionIdle /\ BatchIdle

Init ==
  /\ pc = "call"
  /\ cdf_raw \in RawCdfs
  /\ open_lower \in BOOLEAN
  /\ open_upper \in BOOLEAN
  /\ \E sc \in StepConfigs : min_step = sc[1] /\ max_step = sc[2]
  /\ d_raw = <<>> /\ L = 0 /\ d_proj = <<>> /\ cdf_fix = <<>>
  /\ result = <<>> /\ branch = "none" /\ call = 1 /\ first = <<>>
  /\ ProjIdle
  /\ FlatIdle
  /\ ParIdle
  /\ MainIdle

\* --------------------------------------------- enforce_cdf_constraints
Total == UpperLimit(open_upper) - LowerLimit(open_lower)

\* lines 140-143: n < 2 returns the copy of the argument
ReturnShort ==
  /\ pc = "call" /\ Len(cdf_raw) < 2
  /\ result' = cdf_raw /\ branch' = "short" /\ pc' = "done"
  /\ UNCHANGED <<cdf_raw, open_lower, open_upper, min_step, max_step,
                 d_raw, L, d_proj, cdf_fix, call, first, projVars, flatVars, parVars, mainVars>>

\* c = np.clip(cdf_raw, 0.0, 1.0); c = np.maximum.accumulate(c)
Cleaned(raw) == RunMax([i \in 1..Len(raw) |-> Clip(raw[i], 0, One)])

\* d_raw = np.diff(c); d_raw = np.maximum(d_raw, 0.0)
RawIncrementsUncleaned(raw) ==
  [i \in 1..(Len(raw) - 1) |-> Max2(raw[i + 1] - raw[i], 0)]
RawIncrements(raw) ==
  LET dc == Diff(Cleaned(raw)) IN [i \in 1..Len(dc) |-> Max2(dc[i], 0)]

\* lines 145-157
Clean ==
  /\ pc = "call" /\ Len(cdf_raw) >= 2
  /\ d_raw' = RawIncrements(cdf_raw)
  /\ pc' = "cleaned"
  /\ UNCHANGED <<cdf_raw, open_lower, open_upper, min_step, max_step,
                 L, d_proj, cdf_fix, result, branch, call, first, projVars, flatVars, parVars, mainVars>>

\* lines 159-165
Project ==
  /\ pc = "cleaned"
  /\ L' = FeasibleL(Len(d_raw), min_step, Total)
  /\ d_proj' = ProjectBoundedSimplex(d_raw, Total, L', max_step)
  /\ pc' = "projected"
  /\ UNCHANGED <<cdf_raw, open_lower, open_upper, min_step, max_step,
                 d_raw, cdf_fix, result, branch, call, first, projVars, flatVars, parVars, mainVars>>

\* lines 167-171
Reconstruct ==
  /\ pc = "projected"
  /\ cdf_fix' = Rebuild(LowerLimit(open_lower), UpperLimit(open_upper), d_proj)
  /\ pc' = "rebuilt"
  /\ UNCHANGED <<cdf_raw, open_lower, open_upper, min_step, max_step,
                 d_raw, L, d_proj, result, branch, call, first, projVars, flatVars, parVars, mainVars>>

\* lines 173-184: the post-pass is called with min_step = L
PostPass ==
  /\ pc = "rebuilt"
  /\ LET r == AntiFlattenPostpass(cdf_fix, open_lower, open_upper, L, max_step)
     IN result' = r.cdf /\ branch' = r.branch
  /\ pc' = "done"
  /\ UNCHANGED <<cdf_raw, open_lower, open_upper, min_step, max_step,
                 d_raw, L, d_proj, cdf_fix, call, first, projVars, flatVars, parVars, mainVars>>

\* the caller applies enforce_cdf_constraints to what it returned, with the
\* same flags and step bounds
Resubmit ==
  /\ pc = "done" /\ call = 1 /\ Len(cdf_raw) >= 2
  /\ first' = result /\ cdf_raw' = result /\ call' = 2
  /\ d_raw' = <<>> /\ L' = 0 /\ d_proj' = <<>> /\ cdf_fix' = <<>>
  /\ result' = <<>> /\ branch' = "none" /\ pc' = "call"
  /\ UNCHANGED <<open_lower, open_upper, min_step, max_step, projVars, flatVars, parVars, mainVars>>

Next == ReturnShort \/ Clean \/ Project \/ Reconstruct \/ PostPass \/ Resubmit

Spec == Init /\ [][Next]_vars

\* ------------------------------ _project_bounded_simplex, step by step
ProjVals == {0, 250000, 500000, 1000000}
ProjVecs == UNION {[1..n -> ProjVals] : n \in 0..(MaxN - 1)}
ProjTotals == {0, 500000, One - 2 * Milli, One, 2 * One}
\* <<L, U>>: the default step bounds; no minimum; a shrunk L of three
\* increments; L above U
ProjBounds == {<<DefaultMinStep, DefaultMaxStep>>, <<0, DefaultMaxStep>>,
               <<333329, DefaultMaxStep>>, <<600000, DefaultMaxStep>>}
\* <<tol, max_iter>>: the defaults; an exact tolerance; a short loop
ProjTunables == {<<Tol, MaxIter>>, <<0, MaxIter>>, <<Tol, 3>>}

EnforceIdle ==
  /\ pc = "idle" /\ cdf_raw = <<>> /\ open_lower = FALSE /\ open_upper = FALSE
  /\ min_step = 0 /\ max_step = 0 /\ d_raw = <<>> /\ L = 0 /\ d_proj = <<>>
  /\ cdf_fix = <<>> /\ result = <<>> /\ branch = "none" /\ call = 1
  /\ first = <<>>

InitProj ==
  /\ EnforceIdle
  /\ FlatIdle
  /\ ParIdle
  /\ MainIdle
  /\ p_pc = "start"
  /\ p_d \in ProjVecs
  /\ p_total \in ProjTotals
  /\ \E b \in ProjBounds : p_L = b[1] /\ p_U = b[2]
  /\ \E t \in ProjTunables : p_tol = t[1] /\ p_max_iter = t[2]
  /\ p_target = 0 /\ p_lo = 0 /\ p_hi = 0 /\ p_iter = 0 /\ p_out = <<>>

\* lines 27-30
ProjEmpty ==
  /\ p_pc = "start" /\ Len(p_d) = 0
  /\ p_out' = p_d /\ p_pc' = "empty"
  /\ UNCHANGED <<p_d, p_total, p_L, p_U, p_tol, p_max_iter, p_target,
                 p_lo, p_hi, p_iter, enforceVars, flatVars, parVars, mainVars>>

\* lines 32-37
ProjSetup ==
  /\ p_pc = "start" /\ Len(p_d) > 0
  /\ p_target' = ClampTotal(p_d, p_total, p_L, p_U)
  /\ p_lo' = InitLo(p_d, p_L)
  /\ p_hi' = InitHi(p_d, p_U)
  /\ p_iter' = 0 /\ p_pc' = "loop"
  /\ UNCHANGED <<p_d, p_total, p_L, p_U, p_tol, p_max_iter, p_out, enforceVars, flatVars, parVars, mainVars>>

\* lines 39-41 and 44-47: an iteration that does not return
ProjIterate ==
  /\ p_pc = "loop" /\ p_iter < p_max_iter
  /\ LET mid == Mid(p_lo, p_hi)
         s == S(p_d, mid, p_L, p_U)
     IN /\ ~Converged(s, p_target, p_tol)
        /\ LET b == Narrow(p_lo, p_hi, mid, s, p_target)
           IN p_lo' = b[1] /\ p_hi' = b[2]
  /\ p_iter' = p_iter + 1
  /\ UNCHANGED <<p_pc, p_d, p_total, p_L, p_U, p_tol, p_max_iter, p_target,
                 p_out, enforceVars, flatVars, parVars, mainVars>>

\* lines 39-43: the iteration that returns
ProjConverge ==
  /\ p_pc = "loop" /\ p_iter < p_max_iter
  /\ LET mid == Mid(p_lo, p_hi)
     IN /\ Converged(S(p_d, mid, p_L, p_U), p_target, p_tol)
        /\ p_out' = ClipShift(p_d, mid, p_L, p_U)
  /\ p_pc' = "converged"
  /\ UNCHANGED <<p_d, p_total, p_L, p_U, p_tol, p_max_iter, p_target,
                 p_lo, p_hi, p_iter, enforceVars, flatVars, parVars, mainVars>>

\* line 50
ProjFallback ==
  /\ p_pc = "loop" /\ p_iter >= p_max_iter
  /\ p_out' = ClipShift(p_d, Mid(p_lo, p_hi), p_L, p_U)
  /\ p_pc' = "fallback"
  /\ UNCHANGED <<p_d, p_total, p_L, p_U, p_tol, p_max_iter, p_target,
                 p_lo, p_hi, p_iter, enforceVars, flatVars, parVars, mainVars>>

NextProj == ProjEmpty \/ ProjSetup \/ ProjIterate \/ ProjConverge \/ ProjFallback

SpecProj == InitProj /\ [][NextProj]_vars

\* ------------------------------- _anti_flatten_postpass, called directly
\* any sequence, compliant or not, and near-flat CDFs of four points
NearFlatCdfs == {<<0, 314000, 694000, 1000000>>, <<0, 330000, 670000, 1000000>>,
                 <<250000, 500000, 750000, 1000000>>}
FlatCdfs == RawCdfs \cup NearFlatCdfs
\* <<min_step, max_step>>: the defaults; no minimum step; a minimum step
\* that three increments can just meet; one that they cannot
FlatSteps == {<<DefaultMinStep, DefaultMaxStep>>, <<0, DefaultMaxStep>>,
              <<300000, DefaultMaxStep>>, <<500000, 590000>>}

InitFlat ==
  /\ EnforceIdle
  /\ ProjIdle
  /\ ParIdle
  /\ MainIdle
  /\ f_pc = "start"
  /\ f_cdf \in FlatCdfs
  /\ f_open_lower \in BOOLEAN
  /\ f_open_upper \in BOOLEAN
  /\ \E sc \in FlatSteps : f_min_step = sc[1] /\ f_max_step = sc[2]
  /\ f_out = <<>>

FlatCall ==
  AntiFlattenPostpass(f_cdf, f_open_lower, f_open_upper, f_min_step, f_max_step)

\* lines 73-76: d.size == 0
FlatEmpty ==
  /\ f_pc = "start" /\ FlatCall.branch = "empty"
  /\ f_out' = FlatCall.cdf /\ f_pc' = "empty"
  /\ UNCHANGED <<f_cdf, f_open_lower, f_open_upper, f_min_step, f_max_step,
                 enforceVars, projVars, parVars, mainVars>>

\* lines 78-80: mean <= 0
FlatNonPositive ==
  /\ f_pc = "start" /\ FlatCall.branch = "nonpositive"
  /\ f_out' = FlatCall.cdf /\ f_pc' = "nonpositive"
  /\ UNCHANGED <<f_cdf, f_open_lower, f_open_upper, f_min_step, f_max_step,
                 enforceVars, projVars, parVars, mainVars>>

\* lines 82-84: cv >= cv_thresh
FlatNoop ==
  /\ f_pc = "start" /\ FlatCall.branch = "noop"
  /\ f_out' = FlatCall.cdf /\ f_pc' = "noop"
  /\ UNCHANGED <<f_cdf, f_open_lower, f_open_upper, f_min_step, f_max_step,
                 enforceVars, projVars, parVars, mainVars>>

\* lines 86-111: blend, re-project, rebuild
FlatBlend ==
  /\ f_pc = "start" /\ FlatCall.branch = "blend"
  /\ f_out' = FlatCall.cdf /\ f_pc' = "blend"
  /\ UNCHANGED <<f_cdf, f_open_lower, f_open_upper, f_min_step, f_max_step,
                 enforceVars, projVars, parVars, mainVars>>

NextFlat == FlatEmpty \/ FlatNonPositive \/ FlatNoop \/ FlatBlend

SpecFlat == InitFlat /\ [][NextFlat]_vars

\* ------------------- enforce_cdf_constraints at interleaved call sites
\* the whole call as a function of its arguments
EnforceCdfConstraints(raw, ol, ou, ms, mx) ==
  IF Len(raw) < 2 THEN raw
  ELSE LET total == UpperLimit(ou) - LowerLimit(ol)
           d == RawIncrements(raw)
           l == FeasibleL(Len(d), ms, total)
           dp == ProjectBoundedSimplex(d, total, l, mx)
           fix == Rebuild(LowerLimit(ol), UpperLimit(ou), dp)
       IN AntiFlattenPostpass(fix, ol, ou, l, mx).cdf

\* calls a site makes, one after the other
MaxCalls == 2

\* among them two pairs with the same cleaned increments: a dip below the
\* running maximum, and the same shape at another offset
ParCdfs == {<<1200000>>, <<0, 500000, 1000000>>, <<0, 250000, 250000, 1000000>>,
            <<0, 250000, 0, 1000000>>, <<500000, 0, 1000000>>,
            <<250000, 250000, 750000>>}
ParSteps == {<<DefaultMinStep, DefaultMaxStep>>, <<500000, 590000>>}

\* every name the function assigns is a local of the call: a call at site i
\* reads and writes the frame of site i (FrameShared: one frame for all)
FrameShared(i) == 1
Frame(i) == i

\* which array object a name is bound to: "arg" is the caller's sequence,
\* "fresh" an array allocated by the call.
\* np.asarray(cdf_raw, dtype=float).copy() (AsArrayView: without .copy())
AsArrayView(obj) == obj
AsArrayCopy(obj) == "fresh"
\* np.empty_like(x): a new array
EmptyLike(obj) == "fresh"

\* site i calls enforce_cdf_constraints with fresh arguments; arg is the
\* content of the caller's sequence
Enter(i, raw, o, sc) ==
  [pc |-> "call", cdf_raw |-> raw, open_lower |-> o, open_upper |-> ~o,
   min_step |-> sc[1], max_step |-> sc[2], d_raw |-> <<>>, L |-> 0,
   d_proj |-> <<>>, cdf_fix |-> <<>>, result |-> <<>>,
   calls |-> site[i].calls + 1,
   arg |-> raw, raw_obj |-> AsArrayCopy("arg"), result_obj |-> "none"]

InitPar ==
  /\ EnforceIdle
  /\ ProjIdle
  /\ FlatIdle
  /\ ParIdle
  /\ MainIdle

ParCall ==
  \E i \in Sites, raw \in ParCdfs, o \in BOOLEAN, sc \in ParSteps :
    /\ site[i].pc \in {"idle", "done"} /\ site[i].calls < MaxCalls
    /\ site' = [site EXCEPT ![i] = Enter(i, raw, o, sc)]
    /\ UNCHANGED <<enforceVars, projVars, flatVars, mainVars>>

\* lines 140-143
ParReturnShort ==
  \E i \in Sites :
    /\ site[i].pc = "call" /\ Len(site[i].cdf_raw) < 2
    /\ site' = [site EXCEPT ![i].result = site[Frame(i)].cdf_raw,
                            ![i].result_obj = site[i].raw_obj,
                            ![i].pc = "done"]
    /\ UNCHANGED <<enforceVars, projVars, flatVars, mainVars>>

\* lines 145-157
ParClean ==
  \E i \in Sites :
    /\ site[i].pc = "call" /\ Len(site[i].cdf_raw) >= 2
    /\ site' = [site EXCEPT ![i].d_raw = RawIncrements(site[Frame(i)].cdf_raw),
                            ![i].pc = "cleaned"]
    /\ UNCHANGED <<enforceVars, projVars, flatVars, mainVars>>

\* lines 159-165
ParProject ==
  \E i \in Sites :
    /\ site[i].pc = "cleaned"
    /\ LET f == site[Frame(i)]
           total == UpperLimit(f.open_upper) - LowerLimit(f.open_lower)
           l == FeasibleL(Len(f.d_raw), f.min_step, total)
       IN site' = [site EXCEPT
                     ![i].L = l,
                     ![i].d_proj = ProjectBoundedSimplex(f.d_raw, total, l, f.max_step),
                     ![i].pc = "projected"]
    /\ UNCHANGED <<enforceVars, projVars, flatVars, mainVars>>

\* lines 167-171
ParReconstruct ==
  \E i \in Sites :
    /\ site[i].pc = "projected"
    /\ LET f == site[Frame(i)]
           fix == Rebuild(LowerLimit(f.open_lower), UpperLimit(f.open_upper),
                          f.d_proj)
       IN site' = [site EXCEPT
                     ![i].cdf_fix = fix,
                     ![i].arg = IF EmptyLike(site[i].raw_obj) = "arg"
                                THEN fix ELSE site[i].arg,
                     ![i].pc = "rebuilt"]
    /\ UNCHANGED <<enforceVars, projVars, flatVars, mainVars>>

\* lines 173-184
ParPostPass ==
  \E i \in Sites :
    /\ site[i].pc = "rebuilt"
    /\ LET f == site[Frame(i)]
       IN site' = [site EXCEPT
                     ![i].result = AntiFlattenPostpass(f.cdf_fix, f.open_lower,
                                     f.open_upper, f.L, f.max_step).cdf,
                     ![i].result_obj = EmptyLike(site[i].raw_obj),
                     ![i].pc = "done"]
    /\ UNCHANGED <<enforceVars, projVars, flatVars, mainVars>>

NextPar ==
  ParCall \/ ParReturnShort \/ ParClean \/ ParProject \/ ParReconstruct \/ ParPostPass

SpecPar == InitPar /\ [][NextPar]_vars

\* ------------------------------- calls that run to their return
\* a projector call, or enforce_cdf_constraints calls at the call sites
InitTerm == InitProj \/ InitPar
NextTerm == NextProj \/ (ProjIdle /\ NextPar)
SpecTerm == InitTerm /\ [][NextTerm]_vars

\* ------------------------------------- the three operations of the core
\* one call of any of the three functions
InitCore == Init \/ InitProj \/ InitFlat
NextCore == Next \/ NextProj \/ NextFlat
SpecCore == InitCore /\ [][NextCore]_vars

\* ------------------------------------------ forecast_individual_question
\* what my_forecasts holds in the post: the key is missing, latest is None,
\* forecast_values is None, or forecast_values is a list
MyForecasts == {"missing", "latest_none", "values_none", "values"}
QuestionTypes == {"binary", "numeric", "multiple_choice", "date"}
KnownTypes == {"binary", "numeric", "multiple_choice"}

\* the lookup raises on a missing key or a None latest and the except clause
\* answers False; otherwise forecast_values is not None
forecast_is_already_made(details) == details = "values"

\* post_question_prediction, post_question_comment: raise RuntimeError unless
\* response.ok (PostUnchecked: the response is not looked at)
PostUnchecked(ok) == "sent"
post_question_prediction(ok) == IF ok THEN "sent" ELSE "RuntimeError"
post_question_comment(ok) == IF ok THEN "sent" ELSE "RuntimeError"

Skips ==
  forecast_is_already_made(post_details)
    /\ skip_previously_forecasted_questions = TRUE

InitQuestion ==
  /\ q_pc = "start"
  /\ post_details = "none" /\ question_type = "none"
  /\ submit_prediction \in BOOLEAN
  /\ skip_previously_forecasted_questions \in BOOLEAN
  /\ predicted = FALSE /\ requests_sent = <<>> /\ summary_of_forecast = <<>>
  /\ q_ret = "none"
  /\ EnforceIdle /\ ProjIdle /\ FlatIdle /\ ParIdle /\ BatchIdle

\* lines 238-249: get_post_details raises Exception unless response.ok;
\* otherwise the post tells the question's type and the state of
\* my_forecasts, and the summary starts with the title and the URL
QGetDetails ==
  /\ q_pc = "start"
  /\ \E ok \in BOOLEAN :
       IF ok
       THEN /\ post_details' \in MyForecasts
            /\ question_type' \in QuestionTypes
            /\ q_pc' = "check"
            /\ summary_of_forecast' = <<"Question", "URL">>
            /\ q_ret' = q_ret
       ELSE /\ q_pc' = "done"
            /\ q_ret' = "Exception"
            /\ UNCHANGED <<post_details, question_type, summary_of_forecast>>
  /\ UNCHANGED <<submit_prediction, skip_previously_forecasted_questions,
                 predicted, requests_sent, coreVars, batchVars>>

\* lines 251-256
QSkip ==
  /\ q_pc = "check"
  /\ Skips
  /\ summary_of_forecast' = Append(summary_of_forecast, "Skipped")
  /\ q_ret' = "summary"
  /\ q_pc' = "done"
  /\ UNCHANGED <<post_details, question_type, submit_prediction,
                 skip_previously_forecasted_questions, predicted,
                 requests_sent, coreVars, batchVars>>

\* lines 258-282: the prediction routine of the question's type runs; it
\* returns a forecast and a comment or raises
QPredict ==
  /\ q_pc = "check"
  /\ ~Skips
  /\ question_type \in KnownTypes
  /\ predicted' = TRUE
  /\ \E ok \in BOOLEAN :
       IF ok
       THEN /\ q_pc' = "submit"
            /\ summary_of_forecast' =
                 summary_of_forecast \o <<"Forecast", "Comment">>
            /\ q_ret' = q_ret
       ELSE /\ q_pc' = "done"
            /\ q_ret' = "ValueError"
            /\ summary_of_forecast' = summary_of_forecast
  /\ UNCHANGED <<post_details, question_type, submit_prediction,
                 skip_previously_forecasted_questions, requests_sent,
                 coreVars, batchVars>>

\* lines 270-271
QUnknownType ==
  /\ q_pc = "check"
  /\ ~Skips
  /\ question_type \notin KnownTypes
  /\ q_pc' = "done"
  /\ q_ret' = "ValueError"
  /\ UNCHANGED <<post_details, question_type, submit_prediction,
                 skip_previously_forecasted_questions, predicted,
                 requests_sent, summary_of_forecast, coreVars, batchVars>>

\* line 284 false, line 290
QNoSubmit ==
  /\ q_pc = "submit"
  /\ ~(submit_prediction = TRUE)
  /\ q_pc' = "done"
  /\ q_ret' = "summary"
  /\ UNCHANGED <<post_details, question_type, submit_prediction,
                 skip_previously_forecasted_questions, predicted,
                 requests_sent, summary_of_forecast, coreVars, batchVars>>

\* lines 284-286
QPostPrediction ==
  /\ q_pc = "submit"
  /\ submit_prediction = TRUE
  /\ \E ok \in BOOLEAN :
       /\ requests_sent' =
            Append(requests_sent, [kind |-> "prediction", ok |-> ok])
       /\ IF post_question_prediction(ok) = "sent"
          THEN q_pc' = "comment" /\ q_ret' = q_ret
          ELSE q_pc' = "done" /\ q_ret' = post_question_prediction(ok)
  /\ UNCHANGED <<post_details, question_type, submit_prediction,
                 skip_previously_forecasted_questions, predicted,
                 summary_of_forecast, coreVars, batchVars>>

\* lines 287-290
QPostComment ==
  /\ q_pc = "comment"
  /\ \E ok \in BOOLEAN :
       /\ requests_sent' =
            Append(requests_sent, [kind |-> "comment", ok |-> ok])
       /\ IF post_question_comment(ok) = "sent"
          THEN /\ summary_of_forecast' = Append(summary_of_forecast, "Posted")
               /\ q_ret' = "summary"
          ELSE /\ summary_of_forecast' = summary_of_forecast
               /\ q_ret' = post_question_comment(ok)
  /\ q_pc' = "done"
  /\ UNCHANGED <<post_details, question_type, submit_prediction,
                 skip_previously_forecasted_questions, predicted,
                 coreVars, batchVars>>

NextQuestion ==
  QGetDetails \/ QSkip \/ QPredict \/ QUnknownType \/ QNoSubmit
    \/ QPostPrediction \/ QPostComment

SpecQuestion == InitQuestion /\ [][NextQuestion]_vars

\* ----------------------------------------------------- forecast_questions
MaxQuestions == 3

\* how a forecast_individual_question task can end: with its summary, or
\* with one of the exceptions raised at lines 68, 88, 186 and 271
ExceptionClasses == {"RuntimeError", "Exception", "ValueError"}
Outcomes == {"summary"} \cup ExceptionClasses

\* isinstance(forecast_summary, Exception)
IsRuntimeError(x) == x = "RuntimeError"
IsException(x) == x \in ExceptionClasses

\* asyncio.gather(..., return_exceptions=True) completes when every task has
\* ended (GatheredFirstError: or as soon as one task has raised)
GatheredFirstError(ts) ==
  \/ \A i \in DOMAIN ts : ts[i] # "pending"
  \/ \E i \in DOMAIN ts : ts[i] \in ExceptionClasses
Gathered(ts) == \A i \in DOMAIN ts : ts[i] # "pending"

InitBatch ==
  /\ b_pc = "gather"
  /\ \E n \in 0..MaxQuestions :
       /\ open_question_id_post_id = [i \in 1..n |-> i]
       /\ tasks = [i \in 1..n |-> "pending"]
  /\ forecast_summaries = <<>> /\ errors = <<>> /\ b_next = 1
  /\ printed = <<>> /\ b_ret = "none"
  /\ EnforceIdle /\ ProjIdle /\ FlatIdle /\ ParIdle /\ QuestionIdle

\* a task of lines 299-308 ends, whatever the other tasks did
TaskEnds(i) ==
  /\ b_pc = "gather"
  /\ tasks[i] = "pending"
  /\ \E o \in Outcomes : tasks' = [tasks EXCEPT ![i] = o]
  /\ UNCHANGED <<b_pc, open_question_id_post_id, forecast_summaries, errors,
                 b_next, printed, b_ret, coreVars, questionVars>>

\* line 309: the results, in the order of the tasks
Gather ==
  /\ b_pc = "gather"
  /\ Gathered(tasks)
  /\ forecast_summaries' = tasks
  /\ errors' = <<>>
  /\ b_next' = 1
  /\ b_pc' = "loop"
  /\ UNCHANGED <<open_question_id_post_id, tasks, printed, b_ret, coreVars,
                 questionVars>>

\* lines 313-323, one round of the loop
ProcessSummary ==
  /\ b_pc = "loop"
  /\ b_next <= Len(forecast_summaries)
  /\ LET forecast_summary == forecast_summaries[b_next]
         question == open_question_id_post_id[b_next]
     IN /\ errors' = IF IsException(forecast_summary)
                     THEN Append(errors, forecast_summary) ELSE errors
        /\ printed' = Append(printed,
                        IF IsException(forecast_summary)
                        THEN <<"Error", question>> ELSE <<"Summary", question>>)
  /\ b_next' = b_next + 1
  /\ UNCHANGED <<b_pc, open_question_id_post_id, tasks, forecast_summaries,
                 b_ret, coreVars, questionVars>>

\* lines 325-329
RaiseErrors ==
  /\ b_pc = "loop"
  /\ b_next > Len(forecast_summaries)
  /\ errors # <<>>
  /\ b_ret' = "RuntimeError"
  /\ b_pc' = "done"
  /\ UNCHANGED <<open_question_id_post_id, tasks, forecast_summaries, errors,
                 b_next, printed, coreVars, questionVars>>

\* line 325 false: the function returns None
ReturnNone ==
  /\ b_pc = "loop"
  /\ b_next > Len(forecast_summaries)
  /\ errors = <<>>
  /\ b_ret' = "returned"
  /\ b_pc' = "done"
  /\ UNCHANGED <<open_question_id_post_id, tasks, forecast_summaries, errors,
                 b_next, printed, coreVars, questionVars>>

NextBatch ==
  \/ \E i \in DOMAIN tasks : TaskEnds(i)
  \/ Gather
  \/ ProcessSummary
  \/ RaiseErrors
  \/ ReturnNone

SpecBatch == InitBatch /\ [][NextBatch]_vars

\* ================================================================ claims
\* an enforce_cdf_constraints call on N >= 2 points has returned
Done == pc = "done" /\ Len(cdf_raw) >= 2

NonDecreasing(c) == \A i \in 1..(Len(c) - 1) : c[i] <= c[i + 1]

\* element-wise equality up to k
Near(a, b, k) == Len(a) = Len(b) /\ \A i \in 1..Len(a) : Abs(a[i] - b[i]) <= k

\* std(d) / mean(d) >= 0.10 for a positive mean, without the epsilon
CoeffVarAtLeastTenth(d) ==
  SeqSum(d) > 0 /\ WGeq(WScale(100, PairSq(d, 1, 2)), WSq(SeqSum(d)))

\* C1: the CDF returned by enforce_cdf_constraints is non-decreasing, for
\* every raw CDF of length N >= 2, every flag combination and every
\* min_step / max_step, the last step after the final clamp included.
C1_Monotone == Done => NonDecreasing(result)

\* C2: the returned CDF starts exactly at lower_limit and ends at or below
\* upper_limit, for each flag combination, blended or not.
C2_BoundaryExact ==
  Done => /\ result[1] = (IF open_lower THEN Milli ELSE 0)
          /\ result[Len(result)] <= (IF open_upper THEN One - Milli ELSE One)

C2_Witness ==
  /\ Done /\ branch = "blend" /\ open_lower /\ ~open_upper
  /\ Len(result) >= 3 /\ result[1] = Milli /\ result[Len(result)] = One

C4_StepBounds ==
  Done => \A i \in 1..(Len(result) - 1) :
            /\ result[i + 1] - result[i] >= L
            /\ result[i + 1] - result[i] <= max_step

\* a _project_bounded_simplex call on a non-empty vector has returned
ProjReturned == p_pc \in {"converged", "fallback"}
DefaultTunables == p_tol = Tol /\ p_max_iter = MaxIter

\* C5 as stated: the projected vector sums to the total passed in, for
\* every non-empty d_raw, total, L and U.
C5_SumIsTotal ==
  (ProjReturned /\ DefaultTunables) => Abs(SeqSum(p_out) - p_total) <= Tol

\* C5 amended: the projected vector sums to the total clamped into
\* [n * L, n * U].
C5_SumIsClampedTotal ==
  (ProjReturned /\ DefaultTunables)
    => Abs(SeqSum(p_out) - Min2(Max2(p_total, Len(p_d) * p_L), Len(p_d) * p_U)) <= Tol

C5_Witness ==
  /\ ProjReturned /\ DefaultTunables /\ p_L <= p_U /\ Len(p_d) >= 2
  /\ p_total > Len(p_d) * p_U
  /\ SeqSum(p_out) = Len(p_d) * p_U

\* C6: for L <= U and total in [n * L, n * U] no feasible vector (every
\* coordinate in [L, U], summing to total) is nearer to d_raw than the
\* projection, up to the bisection tolerance.  The feasible vectors tried
\* have all coordinates but the last on a grid; squared distance may
\* exceed the optimum by 2 * |lambda| * tol when the sum is off by tol.
Feasible ==
  /\ p_L <= p_U
  /\ Len(p_d) * p_L <= p_total
  /\ p_total <= Len(p_d) * p_U

CandGrid == {k * 125000 : k \in 0..8} \cup {p_L, p_U}

RECURSIVE WDist(_, _)
WDist(x, d) ==
  IF Len(x) = 0 THEN <<0, 0>>
  ELSE WAdd(WSq(x[Len(x)] - d[Len(x)]),
            WDist(SubSeq(x, 1, Len(x) - 1), SubSeq(d, 1, Len(x) - 1)))

InBox(v) == \A i \in 1..Len(v) : p_L <= v[i] /\ v[i] <= p_U

C6_Nearest ==
  (ProjReturned /\ DefaultTunables /\ Feasible)
    => \A pre \in [1..(Len(p_d) - 1) -> CandGrid] :
         LET v == Append(pre, p_total - SeqSum(pre))
         IN InBox(v)
              => WGeq(WAdd(WDist(v, p_d), WNorm(0, 2 * Abs(Mid(p_lo, p_hi)) * p_tol)),
                      WDist(p_out, p_d))

C6_Witness ==
  /\ ProjReturned /\ DefaultTunables /\ Feasible /\ Len(p_d) = 3
  /\ p_out # p_d
  /\ \E i \in 1..3 : p_out[i] = p_U
  /\ \E i \in 1..3 : p_L < p_out[i] /\ p_out[i] < p_U
  /\ \E pre \in [1..2 -> CandGrid] :
       /\ InBox(Append(pre, p_total - SeqSum(pre)))
       /\ Append(pre, p_total - SeqSum(pre)) # p_out

\* C7: for L <= U the projector returns a vector of the length of d_raw with
\* every coordinate in [L, U], on the converged and on the fallback return.
C7_InBox ==
  (ProjReturned /\ p_L <= p_U)
    => /\ Len(p_out) = Len(p_d)
       /\ \A i \in 1..Len(p_out) : p_L <= p_out[i] /\ p_out[i] <= p_U

C7_Witness ==
  /\ p_pc = "fallback" /\ p_L <= p_U /\ Len(p_d) >= 2
  /\ \E i \in 1..Len(p_d) : p_d[i] + Mid(p_lo, p_hi) > p_U /\ p_out[i] = p_U

\* C8: a CDF that is already compliant for the flags (cdf[0] = lower_limit,
\* cdf[N-1] = upper_limit, every increment in [min_step, max_step]) and whose
\* increments have cv >= 0.10 is returned unchanged, within the tolerance.
Compliant(c) ==
  /\ c[1] = LowerLimit(open_lower)
  /\ c[Len(c)] = UpperLimit(open_upper)
  /\ \A i \in 1..(Len(c) - 1) :
       c[i + 1] - c[i] >= min_step /\ c[i + 1] - c[i] <= max_step

C8_CompliantUnchanged ==
  (Done /\ Compliant(cdf_raw) /\ CvAtLeast(Diff(cdf_raw)))
    => Near(result, cdf_raw, Tol)

\* C9 as stated: enforce(enforce(x)) = enforce(x) within tolerance for every
\* x, also when the first call blended.
C9_Idempotent == (Done /\ call = 2) => Near(result, first, 3 * Tol)

\* C9 amended: enforce(enforce(x)) = enforce(x) within tolerance when the
\* second call does not take the blending branch, and for N = 2.
C9_IdempotentUnlessBlended ==
  (Done /\ call = 2 /\ (branch # "blend" \/ Len(result) = 2))
    => Near(result, first, 3 * Tol)

C9_Witness ==
  /\ Done /\ call = 2 /\ branch = "noop" /\ Len(result) >= 4
  /\ result # first /\ Near(result, first, 3 * Tol)

\* C10 as stated: the increments of the returned CDF have cv >= 0.10, for
\* every N >= 2.
C10_NotNearUniform == Done => CoeffVarAtLeastTenth(Diff(result))

\* C10 amended: the increments of the returned CDF have cv >= 0.10 unless
\* the post-pass blended (or met a non-positive mean increment).
C10_NotNearUniformUnlessBlended ==
  Done => \/ CoeffVarAtLeastTenth(Diff(result))
          \/ branch \in {"blend", "nonpositive"}

C10_Witness ==
  /\ Done /\ branch = "noop" /\ call = 1 /\ Len(result) >= 3
  /\ CoeffVarAtLeastTenth(Diff(result))
  /\ result # cdf_raw

\* a linear ramp from 0 to 1: perfectly uniform increments
IsRamp(c) ==
  /\ Len(c) >= 2 /\ c[1] = 0 /\ c[Len(c)] = One
  /\ \A i \in 1..(Len(c) - 1) : c[i + 1] - c[i] = c[2] - c[1]

\* the coefficient of variation of d is strictly positive (std > 0)
CvPositive(d) == PairSq(d, 1, 2) # <<0, 0>>

ClosedDefaults ==
  /\ ~open_lower /\ ~open_upper
  /\ min_step = DefaultMinStep /\ max_step = DefaultMaxStep

\* the constraints C11 asks the corrected ramp to keep
KeepsConstraints ==
  /\ NonDecreasing(result)
  /\ result[1] = LowerLimit(open_lower)
  /\ result[Len(result)] <= UpperLimit(open_upper)
  /\ \A i \in 1..(Len(result) - 1) :
       L <= result[i + 1] - result[i] /\ result[i + 1] - result[i] <= max_step

FlatReturned ==
  f_pc \in {"nonpositive", "noop", "blend"} /\ Len(f_cdf) >= 2

\* std(d) / (|mean(d)| + 1e-12) >= 0.10.  |sum(d)| is at most 1.2, so
\* m * std >= 1 is enough; below that the products fit.
CvAbsAtLeastTenth(d) ==
  LET p == PairSq(d, 1, 2)
  IN \/ p[1] >= One
     \/ WGeq(WScale(100, p), WSq(Abs(SeqSum(d)) + Len(d) * Eps12))

\* cdf[0] is not the lower limit, or a point lies above the upper limit, or
\* an increment lies outside [min_step, max_step]
FlatInputViolates ==
  \/ f_cdf[1] # LowerLimit(f_open_lower)
  \/ \E i \in 1..Len(f_cdf) : f_cdf[i] > UpperLimit(f_open_upper)
  \/ \E i \in 1..(Len(f_cdf) - 1) :
       \/ f_cdf[i + 1] - f_cdf[i] < f_min_step
       \/ f_cdf[i + 1] - f_cdf[i] > f_max_step

\* C12: when the increments of its input have cv >= cv_thresh,
\* _anti_flatten_postpass returns the input with every element unchanged
\* (no re-anchoring, re-projection or clamp), also for an input that
\* violates the boundary or step constraints.
C12_NoopReturnsInput ==
  (FlatReturned /\ CvAbsAtLeastTenth(Diff(f_cdf))) => f_out = f_cdf

C12_Witness ==
  /\ f_pc = "noop" /\ Len(f_cdf) >= 3 /\ f_out = f_cdf
  /\ f_cdf[1] # LowerLimit(f_open_lower)
  /\ f_cdf[Len(f_cdf)] > UpperLimit(f_open_upper)
  /\ \E i \in 1..(Len(f_cdf) - 1) : f_cdf[i + 1] < f_cdf[i]

\* the divisors of _anti_flatten_postpass on increments d: |mean| + 1e-12
\* (times m) and the kernel sum w.sum()
DivisorsNonZero(d) ==
  /\ Len(d) >= 1
  /\ Abs(SeqSum(d)) + Len(d) * Eps12 > 0
  /\ SeqSum(Kernel(Len(d))) > 0

\* C13: no operation of the core reaches an error state: total / m has
\* m >= 1, the min / max of the projector are over a non-empty vector, the
\* divisors of the post-pass are non-zero, cdf_out[0] and cdf_out[-1] exist,
\* and each function returns a vector of the length of its input, also with
\* min_step > max_step or m * max_step < total.
C13_NoErrorState ==
  /\ pc \in {"cleaned", "projected", "rebuilt"} => Len(d_raw) >= 1
  /\ pc \in {"projected", "rebuilt"} => Len(d_proj) = Len(d_raw)
  /\ pc = "rebuilt" => Len(cdf_fix) = Len(cdf_raw) /\ DivisorsNonZero(Diff(cdf_fix))
  /\ pc = "done" => Len(result) = Len(cdf_raw)
  /\ p_pc = "loop" => Len(p_d) >= 1
  /\ p_pc \in {"empty", "converged", "fallback"} => Len(p_out) = Len(p_d)
  /\ f_pc \in {"noop", "blend"} => DivisorsNonZero(Diff(f_cdf))
  /\ f_pc \in {"empty", "nonpositive", "noop", "blend"} => Len(f_out) = Len(f_cdf)

C13_Witness ==
  /\ Done /\ branch = "blend" /\ min_step > max_step
  /\ Len(result) = Len(cdf_raw) /\ Len(result) >= 3

\* C14: degenerate inputs come back unchanged: enforce_cdf_constraints on
\* fewer than two points returns the same values (not anchored, not clamped
\* to [0, 1]); _project_bounded_simplex on an empty vector returns an empty
\* vector; _anti_flatten_postpass on a sequence without increments, or with
\* a mean increment <= 0, returns its input.
C14_DegenerateUnchanged ==
  /\ (pc = "done" /\ Len(cdf_raw) < 2) => result = cdf_raw
  /\ (p_pc \notin {"idle", "start"} /\ Len(p_d) = 0) => p_out = <<>>
  /\ (f_pc \notin {"idle", "start"}
        /\ (Len(f_cdf) < 2 \/ SeqSum(Diff(f_cdf)) <= 0)) => f_out = f_cdf

C14_Witness ==
  /\ f_pc = "nonpositive" /\ Len(f_cdf) >= 3 /\ f_out = f_cdf
  /\ SeqSum(Diff(f_cdf)) = 0
  /\ f_cdf[1] > UpperLimit(f_open_upper)

\* C15: in enforce_cdf_constraints with m = N - 1 increments the effective
\* lower bound is max(total / m - 1e-12, 0) when m * min_step > total and
\* min_step otherwise; either way 0 <= L <= min_step (min_step >= 0) and
\* m * L <= total, so the clamp of total in the projector never raises it
\* to n * L.
C15_FeasibleLowerBound ==
  pc \in {"projected", "rebuilt", "done"} /\ Len(cdf_raw) >= 2
    => LET m == Len(d_raw)
       IN /\ m * min_step > Total => L = Max2((Total \div m) - Eps12, 0)
          /\ m * min_step <= Total => L = min_step
          /\ 0 <= L /\ L <= min_step
          /\ m * L <= Total
          /\ ClampTotal(d_raw, Total, L, max_step) <= Total

C15_Witness ==
  /\ pc = "projected" /\ Len(d_raw) = 3 /\ open_lower /\ open_upper
  /\ 3 * min_step > Total /\ 0 < L /\ L < min_step
  /\ min_step <= max_step
  /\ \A i \in 1..3 : d_proj[i] >= L

\* the infeasible-shrink scenario: three points, min_step = 0.5,
\* max_step = 0.59, both bounds closed (total = 1.0)
ShrinkScenario ==
  /\ Len(cdf_raw) = 3 /\ ~open_lower /\ ~open_upper
  /\ min_step = One \div 2 /\ max_step = 590000

\* C16: in that scenario L_eff <= 0.5 and, for every raw input, the
\* returned CDF has three points whose two increments each lie in
\* [L_eff, 0.59] and sum to 1.0.
C16_ShrinkScenario ==
  (Done /\ ShrinkScenario)
    => /\ L <= One \div 2
       /\ Len(result) = 3
       /\ \A i \in 1..2 :
            L <= result[i + 1] - result[i] /\ result[i + 1] - result[i] <= 590000
       /\ Abs((result[3] - result[1]) - One) <= Tol

C16_Witness ==
  /\ Done /\ ShrinkScenario /\ call = 1
  /\ cdf_raw[1] > cdf_raw[2] /\ cdf_raw[3] > One
  /\ L = One \div 2 /\ branch = "blend"
  /\ result[2] - result[1] = L /\ result[3] = One

\* C17: the raw CDF [0.0, 0.5, 1.0] with both bounds closed and the default
\* constants is returned unchanged within the tolerance, although cv = 0
\* sends it through the blending branch.
C17_HalfRampUnchanged ==
  (Done /\ call = 1 /\ cdf_raw = <<0, One \div 2, One>> /\ ClosedDefaults)
    => branch = "blend" /\ Near(result, cdf_raw, Tol)

C17_Witness ==
  /\ Done /\ call = 1 /\ cdf_raw = <<0, One \div 2, One>> /\ ClosedDefaults
  /\ branch = "blend" /\ cdf_fix = cdf_raw /\ Near(result, cdf_fix, Tol)

\* the (possibly shrunk) lower bound of a direct post-pass call
FlatL ==
  FeasibleL(Len(f_cdf) - 1, f_min_step,
            UpperLimit(f_open_upper) - LowerLimit(f_open_lower))

\* C18: whenever _anti_flatten_postpass blends, for any input CDF of length
\* >= 2, its output starts at lower, ends at most at upper, is
\* non-decreasing and has every increment in [L, max_step]; the final clamp
\* does not push the last increment below L.
C18_BlendOutputLegal ==
  f_pc = "blend"
    => /\ f_out[1] = LowerLimit(f_open_lower)
       /\ f_out[Len(f_out)] <= UpperLimit(f_open_upper)
       /\ NonDecreasing(f_out)
       /\ \A i \in 1..(Len(f_out) - 1) :
            FlatL <= f_out[i + 1] - f_out[i] /\ f_out[i + 1] - f_out[i] <= f_max_step

\* C19: enforce_cdf_constraints keeps no state across calls: whatever the
\* interleaving of the calls in flight at the other site and whatever calls
\* were made before, a call that has returned holds the result of running
\* it alone on unchanged arguments (so equal arguments give equal results).
C19_CallsIndependent ==
  \A i \in Sites :
    site[i].pc = "done"
      => site[i].result =
           EnforceCdfConstraints(site[i].cdf_raw, site[i].open_lower,
                                 site[i].open_upper, site[i].min_step,
                                 site[i].max_step)

C19_Witness ==
  /\ site[1].pc = "done" /\ site[2].pc = "done"
  /\ site[1].calls = 2 /\ site[2].calls = 1
  /\ site[1].cdf_raw = site[2].cdf_raw /\ Len(site[1].cdf_raw) = 4
  /\ site[1].min_step # site[2].min_step
  /\ site[1].result # site[2].result

\* C20: the lower step bound of the post-pass's re-projection is the L_eff
\* of the first projection: enforce passes min_step = L_eff, and the
\* post-pass's own test m * L > total is false on it, so L is not shrunk a
\* second time.
C20_SameLowerBound ==
  (pc \in {"rebuilt", "done"} /\ Len(cdf_raw) >= 2)
    => LET m == Len(cdf_fix) - 1
       IN /\ ~(m * L > Total)
          /\ FeasibleL(m, L, Total) = L

C20_Witness ==
  /\ Done /\ branch = "blend" /\ Len(result) = 4
  /\ 0 < L /\ L < min_step /\ min_step <= max_step
  /\ FeasibleL(3, L, Total) = L
  /\ result[2] - result[1] >= L

\* truncations of the six-decimal grid per element of a blended vector
\* (the kernel product twice, the two halves of the blend once each)
BlendRoundOff == 4

\* the increments, limits and blended increments of a direct post-pass call
FlatD == Diff(f_cdf)
FlatTotal == UpperLimit(f_open_upper) - LowerLimit(f_open_lower)
FlatInBox(v) == \A i \in 1..Len(v) : FlatL <= v[i] /\ v[i] <= f_max_step

Bracketed ==
  /\ p_lo < p_hi
  /\ S(p_d, p_lo, p_L, p_U) <= p_target
  /\ p_target <= S(p_d, p_hi, p_L, p_U)

\* C22: in _project_bounded_simplex with L <= U the bracket always holds a
\* root: before the first iteration S(lo) = n * L <= total <= n * U = S(hi)
\* for the clamped total, and after every iteration lo < hi and
\* S(lo) <= total <= S(hi); hi is narrowed only when S(mid) > total and lo
\* only when S(mid) < total - tol.
C22_BracketKept ==
  /\ [](p_pc = "loop" /\ p_L <= p_U
          => /\ Bracketed
             /\ p_iter = 0 => /\ S(p_d, p_lo, p_L, p_U) = Len(p_d) * p_L
                              /\ S(p_d, p_hi, p_L, p_U) = Len(p_d) * p_U)
  /\ [][p_pc = "loop" /\ p_L <= p_U
          => LET s == S(p_d, Mid(p_lo, p_hi), p_L, p_U)
             IN /\ p_hi' # p_hi => s > p_target /\ p_lo' = p_lo
                /\ p_lo' # p_lo => s < p_target - p_tol /\ p_hi' = p_hi]_vars

C22_Witness ==
  /\ p_pc = "loop" /\ p_L < p_U /\ p_iter >= 5 /\ Len(p_d) = 3
  /\ p_lo > InitLo(p_d, p_L) /\ p_hi < InitHi(p_d, p_U)
  /\ S(p_d, p_lo, p_L, p_U) < p_target
  /\ p_target < S(p_d, p_hi, p_L, p_U)

\* the statements of enforce_cdf_constraints in program order
PcRank(p) ==
  CASE p = "idle" -> 0 [] p = "call" -> 1 [] p = "cleaned" -> 2
    [] p = "projected" -> 3 [] p = "rebuilt" -> 4 [] p = "done" -> 5

\* statements the projector call may still run before it returns
ProjRemaining ==
  CASE p_pc = "start" -> p_max_iter + 2
    [] p_pc = "loop" -> (p_max_iter - p_iter) + 1
    [] OTHER -> 0

\* statements the call in flight at site i may still run
SiteRemaining(i) ==
  IF site[i].pc = "idle" THEN 0 ELSE PcRank("done") - PcRank(site[i].pc)

\* C23: every _project_bounded_simplex call returns after at most max_iter
\* iterations, each of which halves hi - lo (up to the grid); it returns at
\* the first midpoint with |S(mid) - total| <= tol and otherwise, after the
\* cap, clip(d_raw + (lo + hi) / 2, L, U); every enforce_cdf_constraints
\* call returns, running its statements once each in order (the projector
\* at most twice: line 165 and line 105).  Termination is stated by a
\* variant: every step of a call that has not returned lowers the number of
\* statements it may still run (the guards of the statements at each
\* position cover every case, so such a call always has a step).
C23_Terminates ==
  /\ [](p_iter <= p_max_iter)
  /\ [](p_pc = "converged"
          => /\ p_iter < p_max_iter
             /\ Converged(S(p_d, Mid(p_lo, p_hi), p_L, p_U), p_target, p_tol)
             /\ p_out = ClipShift(p_d, Mid(p_lo, p_hi), p_L, p_U))
  /\ [](p_pc = "fallback"
          => /\ p_iter = p_max_iter
             /\ p_out = ClipShift(p_d, Mid(p_lo, p_hi), p_L, p_U))
  /\ [][p_pc = "loop" /\ p_iter < p_max_iter
          => IF Converged(S(p_d, Mid(p_lo, p_hi), p_L, p_U), p_target, p_tol)
             THEN p_pc' = "converged"
             ELSE /\ p_pc' = "loop" /\ p_iter' = p_iter + 1
                  /\ 2 * (p_hi' - p_lo') <= (p_hi - p_lo) + 1]_vars
  /\ [](p_pc \in {"start", "loop"} => ProjRemaining > 0)
  /\ [][(p_pc = "start" \/ p_pc = "loop")
          => (ProjRemaining' < ProjRemaining) /\ (0 <= ProjRemaining')]_vars
  /\ [](\A i \in Sites :
          site[i].pc \in {"call", "cleaned", "projected", "rebuilt"}
            => SiteRemaining(i) > 0)
  /\ [][\A i \in Sites :
          (site[i].pc' # site[i].pc /\ site[i].pc \notin {"idle", "done"})
            => SiteRemaining(i)' < SiteRemaining(i)]_vars
  /\ [][\A i \in Sites :
          site[i].pc' # site[i].pc
            => \/ PcRank(site[i].pc') > PcRank(site[i].pc)
               \/ site[i].pc = "done" /\ site[i].pc' = "call"]_vars

C23_Witness ==
  /\ p_pc = "fallback" /\ p_iter = MaxIter /\ p_tol = 0 /\ p_L < p_U
  /\ p_hi - p_lo = 1 /\ Len(p_d) = 3

C25_OrderKept ==
  ProjReturned
    => \A i, j \in 1..Len(p_d) :
         /\ p_d[i] <= p_d[j] => p_out[i] <= p_out[j]
         /\ p_d[i] = p_d[j] => p_out[i] = p_out[j]

C25_Witness ==
  /\ p_pc = "converged" /\ Len(p_d) = 3 /\ p_L < p_U
  /\ p_d[1] < p_d[2] /\ p_d[2] < p_d[3]
  /\ p_out[1] = p_L /\ p_out[1] < p_out[2] /\ p_out[2] < p_out[3]
  /\ p_out # p_d

\* two returned calls with the same flags and step bounds
SameSettings(i, j) ==
  /\ site[i].pc = "done" /\ site[j].pc = "done"
  /\ site[i].open_lower = site[j].open_lower
  /\ site[i].open_upper = site[j].open_upper
  /\ site[i].min_step = site[j].min_step
  /\ site[i].max_step = site[j].max_step

\* C26: the output depends on the raw CDF only through the increments of
\* its cleaned sequence: two calls on raw inputs of the same length whose
\* cleaned sequences have the same consecutive differences return the same
\* CDF for the same flags and bounds (cdf[0], cdf[N-1] and a constant
\* offset of the raw input are discarded).
C26_OnlyCleanedIncrements ==
  \A i, j \in Sites :
    (/\ SameSettings(i, j)
     /\ Len(site[i].cdf_raw) = Len(site[j].cdf_raw)
     /\ Len(site[i].cdf_raw) >= 2
     /\ Diff(Cleaned(site[i].cdf_raw)) = Diff(Cleaned(site[j].cdf_raw)))
      => site[i].result = site[j].result

C26_Witness ==
  /\ SameSettings(1, 2) /\ Len(site[1].cdf_raw) = 3 /\ Len(site[2].cdf_raw) = 3
  /\ site[1].cdf_raw[1] # site[2].cdf_raw[1]
  /\ site[1].cdf_raw[3] # site[2].cdf_raw[3]
  /\ Diff(Cleaned(site[1].cdf_raw)) = Diff(Cleaned(site[2].cdf_raw))
  /\ site[1].result = site[2].result

\* C27: inside enforce_cdf_constraints the clamp of total into
\* [n * L, n * U] changes total only when m * max_step < total; whenever
\* m * max_step >= total (every N >= 3 with the default step bounds) the
\* first projection and the re-projection of the post-pass solve for
\* total = upper_limit - lower_limit, and the returned cdf[N-1] is within
\* the bisection tolerance of upper_limit.
C27_NominalTotal ==
  (pc \in {"projected", "rebuilt", "done"} /\ Len(cdf_raw) >= 2)
    => LET m == Len(d_raw)
           d_tilt == Blend(Diff(cdf_fix))
       IN /\ ClampTotal(d_raw, Total, L, max_step) # Total => m * max_step < Total
          /\ (m >= 2 /\ max_step = DefaultMaxStep) => m * max_step >= Total
          /\ (m * max_step >= Total)
               => /\ L <= max_step
                  /\ ClampTotal(d_raw, Total, L, max_step) = Total
                  /\ (pc = "done" /\ branch = "blend")
                       => ClampTotal(d_tilt, Total, FeasibleL(m, L, Total), max_step)
                            = Total
                  /\ pc = "done"
                       => Abs(result[Len(result)] - UpperLimit(open_upper)) <= Tol

C27_Witness ==
  /\ Done /\ branch = "blend" /\ Len(result) = 3 /\ open_lower /\ ~open_upper
  /\ min_step > Total \div 2 /\ 2 * max_step >= Total
  /\ ClampTotal(d_raw, Total, L, max_step) = Total
  /\ result[3] = One

\* C28: enforce_cdf_constraints never modifies the caller's cdf_raw: after
\* the call every element of the argument has the value it was given, on
\* the early return (N < 2), the no-op and the blending path alike, and the
\* returned sequence is an object of its own.
C28_ArgumentUntouched ==
  \A i \in Sites :
    /\ site[i].pc # "idle" => site[i].arg = site[i].cdf_raw
    /\ site[i].pc = "done" => site[i].result_obj = "fresh"

C28_Witness ==
  /\ site[1].pc = "done" /\ Len(site[1].cdf_raw) < 2
  /\ site[1].result = site[1].arg /\ site[1].result_obj = "fresh"
  /\ site[2].pc = "done" /\ Len(site[2].cdf_raw) >= 3
  /\ site[2].result # site[2].arg /\ site[2].arg = site[2].cdf_raw

\* C29: when the post already carries a forecast and
\* skip_previously_forecasted_questions is true, forecast_individual_question
\* returns its summary without running a prediction routine and without
\* posting; in every other run a comment is posted only after the prediction
\* POST of the run has succeeded and is the request right before it, and
\* nothing is posted when submit_prediction is false.
C29_SkipAndPostOrder ==
  /\ (post_details = "values" /\ skip_previously_forecasted_questions)
       => /\ ~predicted
          /\ requests_sent = <<>>
          /\ (q_pc = "done" => q_ret = "summary")
  /\ \A k \in DOMAIN requests_sent :
       requests_sent[k].kind = "comment"
         => /\ k > 1
            /\ requests_sent[k - 1] = [kind |-> "prediction", ok |-> TRUE]
            /\ predicted
  /\ ~submit_prediction => requests_sent = <<>>

C29_Witness ==
  /\ q_pc = "done"
  /\ post_details = "values" /\ ~skip_previously_forecasted_questions
  /\ requests_sent = <<[kind |-> "prediction", ok |-> TRUE],
                       [kind |-> "comment", ok |-> TRUE]>>
  /\ q_ret = "summary"

\* the tasks of the batch that ended with an exception, in input order
Failed == SelectSeq(tasks, LAMBDA o : o # "summary" /\ o # "pending")

\* C30: forecast_questions handles the results only when every task has
\* ended, whatever the other tasks raised; the results and the collected
\* exceptions are in input order; and once every summary is processed it
\* raises RuntimeError if and only if at least one task ended with an
\* exception.
C30_AllRunThenRaise ==
  /\ b_pc \in {"loop", "done"}
       => /\ \A i \in DOMAIN tasks : tasks[i] # "pending"
          /\ forecast_summaries = tasks
  /\ b_pc = "done"
       => /\ errors = Failed
          /\ Len(printed) = Len(open_question_id_post_id)
          /\ \A i \in DOMAIN printed : printed[i][2] = open_question_id_post_id[i]
          /\ b_ret = "RuntimeError" <=> Failed # <<>>

C30_Witness ==
  /\ b_pc = "done" /\ b_ret = "RuntimeError"
  /\ Len(tasks) >= 3
  /\ tasks[1] = "ValueError" /\ tasks[2] = "summary" /\ tasks[3] = "RuntimeError"
  /\ errors = <<"ValueError", "RuntimeError">>

====
